---- MODULE Spec2Model ----
(***************************************************************************)
(* Talent scheduling: the dynamic-programming model, its relaxation and    *)
(* ranking (src/src/resolution/model.rs) driven the way a decision-diagram *)
(* compilation drives them; the clustering and the compression             *)
(* (src/src/resolution/compression.rs) and the run of solve that builds    *)
(* them and reports the result (src/src/resolution/solve.rs); the instance *)
(* generator (src/src/generate.rs).                                        *)
(*                                                                         *)
(* Set64 bitsets are finite sets of naturals; bitset iteration is by       *)
(* ascending element.  Vectors indexed from 0 are functions on 0..n-1.     *)
(***************************************************************************)
EXTENDS Integers, Sequences, FiniteSets, TLC

\* ---------------------------------------------------------------- bounds
MaxScenes == 3

MaxActors == 2

MaxCost == 2

MaxDuration == 2

MaxWidth == 2

MaxCells == 6

MaxClusters == 2

VARIABLES pb, mode, depth, state, path, value, width, layer, op,
          pc, self, clusters, compressor, solver, output

\* the variables of a compilation and the variables of a run of solve
compilation == <<depth, state, path, value, width, layer>>

solving == <<pc, self, clusters, compressor, solver, output>>

vars == <<pb, mode, op, compilation, solving>>

\* ------------------------------------------------------- generic helpers
Range(n) == 0 .. (n - 1)

RECURSIVE SetSum(_, _)
SetSum(f, S) ==
    IF S = {} THEN 0
    ELSE LET x == CHOOSE y \in S : TRUE
         IN f[x] + SetSum(f, S \ {x})

Min(S) == CHOOSE x \in S : \A y \in S : x <= y

Max(S) == CHOOSE x \in S : \A y \in S : x >= y

\* Set64::iter : the elements in ascending order
RECURSIVE Iter(_)
Iter(S) ==
    IF S = {} THEN <<>>
    ELSE <<Min(S)>> \o Iter(S \ {Min(S)})

SeqRange(s) == {s[i] : i \in DOMAIN s}

\* ------------------------------------------------------------- instance
\* TalentSchedInstance: the record read from the instance file
TalentSchedInstance(S, A, cost, duration, actors) ==
    [nb_scenes |-> S, nb_actors |-> A, cost |-> cost,
     duration |-> duration, actors |-> actors]

\* the shapes (nb_scenes, nb_actors) within the size budget
Shapes ==
    {sh \in (1 .. MaxScenes) \X (1 .. MaxActors) : sh[1] * sh[2] <= MaxCells}

\* the cost vectors, duration vectors and requirement matrices of a shape:
\* nonnegative costs, positive durations, 0/1 requirement bits
Costs(A) == [Range(A) -> 0 .. MaxCost]

Durations(S) == [Range(S) -> 1 .. MaxDuration]

Requirements(S, A) == [Range(A) -> [Range(S) -> {0, 1}]]

\* graded costs and durations: actor a costs 1 + a mod MaxCost, scene s lasts
\* 1 + s mod MaxDuration
GradedCost(A) == [a \in Range(A) |-> 1 + (a % MaxCost)]

GradedDuration(S) == [s \in Range(S) |-> 1 + (s % MaxDuration)]

\* TalentSched::new : actors[j] is the set of actors scene j requires
TalentSchedNew(instance) ==
    [instance |-> instance,
     actors |-> [j \in Range(instance.nb_scenes) |->
                   {i \in Range(instance.nb_actors) : instance.actors[i][j] = 1}]]

TalentSchedState(scenes, maybe_scenes) ==
    [scenes |-> scenes, maybe_scenes |-> maybe_scenes]

Decision(variable, v) == [variable |-> variable, value |-> v]

\* -------------------------------------------------------------- DP model
\* get_present without the maybe_scenes test: an uncertain scene counts as past
get_present_unguarded(p, st) ==
    LET after  == UNION {p.actors[i] : i \in {j \in Range(p.instance.nb_scenes) :
                            j \in st.scenes}}
        before == UNION {p.actors[i] : i \in {j \in Range(p.instance.nb_scenes) :
                            j \notin st.scenes}}
    IN before \cap after

\* get_present counting an uncertain scene on both sides, past and future
get_present_both_sides(p, st) ==
    LET after  == UNION {p.actors[i] : i \in {j \in Range(p.instance.nb_scenes) :
                            j \in st.maybe_scenes \/ j \in st.scenes}}
        before == UNION {p.actors[i] : i \in {j \in Range(p.instance.nb_scenes) :
                            j \in st.maybe_scenes \/ j \notin st.scenes}}
    IN before \cap after

get_present(p, st) ==
    LET after  == UNION {p.actors[i] : i \in {j \in Range(p.instance.nb_scenes) :
                            j \notin st.maybe_scenes /\ j \in st.scenes}}
        before == UNION {p.actors[i] : i \in {j \in Range(p.instance.nb_scenes) :
                            j \notin st.maybe_scenes /\ j \notin st.scenes}}
    IN before \cap after

nb_variables(p) == p.instance.nb_scenes

initial_state(p) == TalentSchedState(Range(p.instance.nb_scenes), {})

\* initial_value shifted by the forced cost of the instance
initial_value_forced(p) ==
    -SetSum([s \in Range(p.instance.nb_scenes) |->
              SetSum([a \in p.actors[s] |-> p.instance.cost[a] * p.instance.duration[s]],
                     p.actors[s])], Range(p.instance.nb_scenes))

initial_value(p) == 0

\* a transition that removes the scene from the state it is given
transition_call_in_place(p, st, decision) ==
    LET ret == TalentSchedState(st.scenes \ {decision.value},
                                st.maybe_scenes \ {decision.value})
    IN [state |-> ret, ret |-> ret]

\* one call of transition: ret is a clone of the borrowed state with the
\* scene removed from both sets; state is the borrowed state after the call
transition_call(p, st, decision) ==
    LET ret == TalentSchedState(st.scenes \ {decision.value},
                                st.maybe_scenes \ {decision.value})
    IN [state |-> st, ret |-> ret]

\* a transition that removes the scene from maybe_scenes only
transition_maybe_only(p, st, decision) ==
    TalentSchedState(st.scenes, st.maybe_scenes \ {decision.value})

transition(p, st, decision) == transition_call(p, st, decision).ret

\* transition_cost that pays the required actors only, never the held ones
transition_cost_required(p, st, decision) ==
    LET scene == decision.value
        pay   == p.actors[scene]
        cost  == SetSum([a \in pay |-> p.instance.cost[a] * p.instance.duration[scene]], pay)
    IN -cost

\* transition_cost that returns the cost without negating it
transition_cost_unsigned(p, st, decision) ==
    LET scene == decision.value
        pay   == get_present(p, st) \cup p.actors[scene]
    IN SetSum([a \in pay |-> p.instance.cost[a] * p.instance.duration[scene]], pay)

\* transition_cost that pays the held actors only, never the required ones
transition_cost_held_only(p, st, decision) ==
    LET scene == decision.value
        pay   == get_present(p, st)
        cost  == SetSum([a \in pay |-> p.instance.cost[a] * p.instance.duration[scene]], pay)
    IN -cost

transition_cost(p, st, decision) ==
    LET scene == decision.value
        pay   == get_present(p, st) \cup p.actors[scene]
        cost  == SetSum([a \in pay |-> p.instance.cost[a] * p.instance.duration[scene]], pay)
    IN -cost

\* Option<T>: None is the empty sequence, Some(x) the one-element sequence
None == <<>>

Some(x) == <<x>>

\* Variable(depth) is the variable's index
Variable(id) == id

next_variable(p, d) ==
    IF d < p.instance.nb_scenes THEN Some(Variable(d)) ELSE None

\* for_each_in_domain without the test on the count: maybe_scenes always emitted
for_each_in_domain_unguarded(p, variable, st) ==
    [i \in 1 .. Cardinality(st.scenes) |-> Decision(variable, Iter(st.scenes)[i])]
        \o [i \in 1 .. Cardinality(st.maybe_scenes) |->
                Decision(variable, Iter(st.maybe_scenes)[i])]

\* for_each_in_domain with the test on the count off by one: <= for <
for_each_in_domain_inclusive(p, variable, st) ==
    LET certain == [i \in 1 .. Cardinality(st.scenes) |->
                        Decision(variable, Iter(st.scenes)[i])]
        count   == Len(certain)
    IN IF variable + count <= p.instance.nb_scenes
       THEN certain \o [i \in 1 .. Cardinality(st.maybe_scenes) |->
                            Decision(variable, Iter(st.maybe_scenes)[i])]
       ELSE certain

\* the decisions handed to the callback, in call order
for_each_in_domain(p, variable, st) ==
    LET certain == [i \in 1 .. Cardinality(st.scenes) |->
                        Decision(variable, Iter(st.scenes)[i])]
        count   == Len(certain)
    IN IF variable + count < p.instance.nb_scenes
       THEN certain \o [i \in 1 .. Cardinality(st.maybe_scenes) |->
                            Decision(variable, Iter(st.maybe_scenes)[i])]
       ELSE certain

\* ---------------------------------------------------------- relaxation
merged_first(first) ==
    TalentSchedState(first.scenes, first.maybe_scenes \cup first.scenes)

RECURSIVE merge_fold(_, _, _)
merge_fold(merged, states, i) ==
    IF i > Len(states) THEN merged
    ELSE merge_fold(
            TalentSchedState(merged.scenes \cap states[i].scenes,
                             (merged.maybe_scenes \cup states[i].scenes)
                                 \cup states[i].maybe_scenes),
            states, i + 1)

\* merge without the final diff_inplace
merge_without_diff(states) ==
    merge_fold(merged_first(states[1]), states, 2)

\* merge that keeps the scenes of the first state instead of intersecting
merge_scenes_of_first(states) ==
    LET merged == merge_fold(merged_first(states[1]), states, 2)
    IN TalentSchedState(states[1].scenes, merged.maybe_scenes \ states[1].scenes)

\* merge that forgets the scenes that are certain in some of the states
\* instead of keeping them as uncertain
merge_forgetting_certain(states) ==
    LET merged  == merge_fold(merged_first(states[1]), states, 2)
        certain == UNION {states[i].scenes : i \in DOMAIN states}
    IN TalentSchedState(merged.scenes, merged.maybe_scenes \ certain)

\* merge over the iterator's states, in iteration order
merge(states) ==
    LET merged == merge_fold(merged_first(states[1]), states, 2)
    IN TalentSchedState(merged.scenes, merged.maybe_scenes \ merged.scenes)

relax(source, dest, new, decision, cost) == cost

\* CompressedSolutionBound::get_ub, of the framework: the bound is carried as
\* the table of the values it answers
get_ub(bound, st) == bound[st]

\* TalentSchedRelax::new
TalentSchedRelax(p, compression_bound) ==
    [pb |-> p, compression_bound |-> compression_bound]

RECURSIVE SetProduct(_, _)
SetProduct(f, S) ==
    IF S = {} THEN 1
    ELSE LET x == CHOOSE y \in S : TRUE
         IN f[x] * SetProduct(f, S \ {x})

\* the pairs sorted the wrong way round: descending by r
RECURSIVE sort_pairs_descending(_, _)
sort_pairs_descending(r, A) ==
    IF A = {} THEN <<>>
    ELSE LET a == CHOOSE x \in A : \A y \in A :
                      r[x] > r[y] \/ (r[x] = r[y] /\ x <= y)
         IN <<a>> \o sort_pairs_descending(r, A \ {a})

\* r.sort_unstable() on the pairs (r[a], a): ascending by r, then by actor
RECURSIVE sort_pairs(_, _)
sort_pairs(r, A) ==
    IF A = {} THEN <<>>
    ELSE LET a == CHOOSE x \in A : \A y \in A :
                      r[x] < r[y] \/ (r[x] = r[y] /\ x <= y)
         IN <<a>> \o sort_pairs(r, A \ {a})

\* the walk over the sorted pairs: sum_e and the amount added to lb, both
\* in units of 1/den
RECURSIVE walk(_, _, _, _, _, _)
walk(p, r, order, present_actors, i, acc) ==
    IF i > Len(order) THEN acc
    ELSE LET a == order[i]
         IN IF a \in present_actors
            THEN LET sum_e == acc.sum_e + r[a] * p.instance.cost[a]
                 IN walk(p, r, order, present_actors, i + 1,
                         [sum_e |-> sum_e, lb |-> acc.lb + p.instance.cost[a] * sum_e])
            ELSE walk(p, r, order, present_actors, i + 1, acc)

\* fast_upper_bound.  The f64 arithmetic is carried exactly, as fractions
\* over den = product of the total_cost of the scenes that divide by it (and
\* 2 * den for lb).  A total_cost of 0.0 makes lb NaN (0.0 / 0.0), which
\* neither branch of the rounding changes and which `as isize` turns into 0.
fast_upper_bound(rel, st) ==
    LET p == rel.pb
        present_actors == get_present(p, st)
        from_scene(scene) == p.actors[scene] \cap present_actors
        dividing == {scene \in st.scenes : from_scene(scene) # {}}
        total_cost == [scene \in dividing |->
            SetSum([a \in from_scene(scene) |-> p.instance.cost[a]], from_scene(scene))]
        total_cost_sq == [scene \in dividing |->
            SetSum([a \in from_scene(scene) |-> p.instance.cost[a] * p.instance.cost[a]],
                   from_scene(scene))]
        nan == \E scene \in dividing : total_cost[scene] = 0
        den == SetProduct(total_cost, dividing)
        r == [a \in Range(p.instance.nb_actors) |->
                LET of_a == {scene \in dividing : a \in from_scene(scene)}
                IN SetSum([scene \in of_a |->
                            p.instance.duration[scene] * (den \div total_cost[scene])], of_a)]
        forced == SetSum([scene \in st.scenes |->
                    SetSum([a \in p.actors[scene] |->
                              p.instance.cost[a] * p.instance.duration[scene]],
                           p.actors[scene])], st.scenes)
        half == SetSum([scene \in dividing |->
                    p.instance.duration[scene] *
                        (total_cost[scene] * den
                           + total_cost_sq[scene] * (den \div total_cost[scene]))], dividing)
        walked == walk(p, r, sort_pairs(r, Range(p.instance.nb_actors)), present_actors, 1,
                       [sum_e |-> 0, lb |-> 0])
        lb2 == 2 * den * forced - half + 2 * walked.lb
        floor == lb2 \div (2 * den)
        frac2 == lb2 % (2 * den)
        lb == IF nan THEN 0
              ELSE IF 100 * frac2 < 2 * den THEN floor
              ELSE floor + 1
        rub == -lb
    IN IF rel.compression_bound = None THEN rub
       ELSE Min({rub, get_ub(rel.compression_bound[1], st)})

\* ---------------------------------------------------------------- ranking
\* usize::cmp
cmp(x, y) == IF x < y THEN "Less" ELSE IF x > y THEN "Greater" ELSE "Equal"

\* a ranking on the number of certain scenes alone
compare_by_scenes(a, b) == cmp(Cardinality(a.scenes), Cardinality(b.scenes))

\* TalentSchedRanking::compare
compare(a, b) ==
    LET tot_a == Cardinality(a.scenes) + Cardinality(a.maybe_scenes)
        tot_b == Cardinality(b.scenes) + Cardinality(b.maybe_scenes)
    IN cmp(tot_a, tot_b)

\* ------------------------------------------------ exact compilation (paths)
\* a compilation on its own: no run of solve is in progress
NotSolving ==
    /\ pc = "none"
    /\ self = None
    /\ clusters = <<>>
    /\ compressor = None
    /\ solver = None
    /\ output = None

\* an exact compilation starts at the root of any instance within the bounds
InitExact ==
    /\ \E sh \in Shapes :
          \E c \in Costs(sh[2]), d \in Durations(sh[1]), m \in Requirements(sh[1], sh[2]) :
              pb = TalentSchedNew(TalentSchedInstance(sh[1], sh[2], c, d, m))
    /\ mode = "exact"
    /\ depth = 0
    /\ state = initial_state(pb)
    /\ path = <<>>
    /\ value = initial_value(pb)
    /\ width = 0
    /\ layer = {}
    /\ op = [name |-> "init"]
    /\ NotSolving

\* the relaxation of an exact run: no compression bound is configured
Relaxation == TalentSchedRelax(pb, None)

\* one branching step of an exact compilation: the variable of the layer,
\* one decision of the domain, its transition and its cost
Branch ==
    /\ mode = "exact"
    /\ next_variable(pb, depth) # None
    /\ \E decision \in SeqRange(for_each_in_domain(pb, next_variable(pb, depth)[1], state)) :
          /\ state' = transition(pb, state, decision)
          /\ value' = value + transition_cost(pb, state, decision)
          /\ path' = Append(path, decision)
          /\ op' = [name |-> "transition", src |-> state, decision |-> decision,
                    cost |-> transition_cost(pb, state, decision)]
    /\ depth' = depth + 1
    /\ UNCHANGED <<pb, mode, width, layer, solving>>

NextExact == Branch

SpecExact == InitExact /\ [][NextExact]_vars

\* ---------------------------------------- relaxed compilation (layers)
\* the orders in which the iterator handed to merge may yield a set of states:
\* the nodes of the layer in one order, or in the reverse order
RECURSIVE InSomeOrder(_)
InSomeOrder(M) ==
    IF M = {} THEN <<>>
    ELSE LET st == CHOOSE x \in M : TRUE
         IN <<st>> \o InSomeOrder(M \ {st})

Reverse(s) == [i \in DOMAIN s |-> s[Len(s) + 1 - i]]

Orderings(M) == {InSomeOrder(M), Reverse(InSomeOrder(M))}

\* the calls one node of a layer receives: its domain, then for each decision
\* of the domain its transition and its transition cost
Calls(p, var, st) ==
    [state |-> st,
     variable |-> var,
     domain |-> for_each_in_domain(p, var, st),
     branches |-> {[decision |-> dec,
                    state |-> transition_call(p, st, dec).state,
                    next |-> transition(p, st, dec),
                    cost |-> transition_cost(p, st, dec)] :
                        dec \in SeqRange(for_each_in_domain(p, var, st))}]

\* a relaxed compilation of an instance with graded costs and durations: it
\* is rooted at an exact node, the scenes still to schedule, at the depth of
\* the scenes already scheduled, and has a maximum layer width
InitRelaxed ==
    /\ \E sh \in Shapes :
          \E m \in Requirements(sh[1], sh[2]) :
              pb = TalentSchedNew(TalentSchedInstance(sh[1], sh[2], GradedCost(sh[2]),
                                                      GradedDuration(sh[1]), m))
    /\ mode = "relaxed"
    /\ \E root \in SUBSET initial_state(pb).scenes :
          /\ depth = pb.instance.nb_scenes - Cardinality(root)
          /\ layer = {TalentSchedState(root, {})}
    /\ state = initial_state(pb)
    /\ path = <<>>
    /\ value = initial_value(pb)
    /\ width \in 1 .. MaxWidth
    /\ op = [name |-> "init"]
    /\ NotSolving

\* the next layer: the children of the nodes of a layer within the width
Expand ==
    /\ mode = "relaxed"
    /\ Cardinality(layer) <= width
    /\ next_variable(pb, depth) # None
    /\ LET var   == next_variable(pb, depth)[1]
           calls == {Calls(pb, var, st) : st \in layer}
       IN /\ layer' = UNION {{b.next : b \in c.branches} : c \in calls}
          /\ op' = [name |-> "expand", calls |-> calls]
    /\ depth' = depth + 1
    /\ UNCHANGED <<pb, mode, state, path, value, width, solving>>

\* a layer wider than the width is brought to the width: the nodes in excess,
\* and one more, are merged into one node
Merge ==
    /\ mode = "relaxed"
    /\ Cardinality(layer) > width
    /\ \E M \in SUBSET layer :
          /\ Cardinality(M) = Cardinality(layer) - width + 1
          /\ \E states \in Orderings(M) :
                /\ layer' = (layer \ M) \cup {merge(states)}
                /\ op' = [name |-> "merge", states |-> states, merged |-> merge(states)]
    /\ UNCHANGED <<pb, mode, depth, state, path, value, width, solving>>

Next == Expand \/ Merge

Spec == InitRelaxed /\ [][Next]_vars

\* ------------------------------- relaxed compilation, one path followed
\* a relaxed compilation from the initial state of an instance of one actor
\* whom every scene requires, in which one path is followed from the root: state is the node the path has
\* reached, path its decisions and value its length
InitFollowed ==
    /\ \E S \in 1 .. MaxScenes :
          pb = TalentSchedNew(TalentSchedInstance(S, 1, GradedCost(1), GradedDuration(S),
                                                  [a \in Range(1) |-> [s \in Range(S) |-> 1]]))
    /\ mode = "followed"
    /\ depth = 0
    /\ layer = {initial_state(pb)}
    /\ state = initial_state(pb)
    /\ path = <<>>
    /\ value = initial_value(pb)
    /\ width \in 1 .. MaxWidth
    /\ op = [name |-> "init"]
    /\ NotSolving

\* the next layer, and the path goes on by one decision of the domain of the
\* node it has reached
ExpandFollowed ==
    /\ mode = "followed"
    /\ Cardinality(layer) <= width
    /\ next_variable(pb, depth) # None
    /\ LET var   == next_variable(pb, depth)[1]
           calls == {Calls(pb, var, st) : st \in layer}
       IN /\ layer' = UNION {{b.next : b \in c.branches} : c \in calls}
          /\ \E decision \in SeqRange(for_each_in_domain(pb, var, state)) :
                /\ state' = transition(pb, state, decision)
                /\ path' = Append(path, decision)
                /\ value' = value + relax(state, transition(pb, state, decision),
                                          transition(pb, state, decision), decision,
                                          transition_cost(pb, state, decision))
                /\ op' = [name |-> "expand", src |-> state, decision |-> decision]
    /\ depth' = depth + 1
    /\ UNCHANGED <<pb, mode, width, solving>>

\* a layer wider than the width is brought to the width; the path goes
\* through the merged node when the node it had reached is merged
MergeFollowed ==
    /\ mode = "followed"
    /\ Cardinality(layer) > width
    /\ \E M \in SUBSET layer :
          /\ Cardinality(M) = Cardinality(layer) - width + 1
          /\ \E states \in Orderings(M) :
                /\ layer' = (layer \ M) \cup {merge(states)}
                /\ state' = IF state \in M THEN merge(states) ELSE state
                /\ op' = [name |-> "merge", merged |-> merge(states), src |-> state]
    /\ UNCHANGED <<pb, mode, depth, path, value, width, solving>>

NextFollowed == ExpandFollowed \/ MergeFollowed

SpecFollowed == InitFollowed /\ [][NextFollowed]_vars

\* ------------------------------------------------------------ compression
\* usize::MAX, carried as a value above the loss of every pair of clusters
usize_MAX == 2147483647

\* Vec::remove(j): the elements after j shift one place down
Remove(vec, j) ==
    [k \in Range(Cardinality(DOMAIN vec) - 1) |-> IF k < j THEN vec[k] ELSE vec[k + 1]]

\* cluster_scenes, before its loop: one cluster per scene, each a pair of the
\* actors of the scene and the set holding the scene
singletons(p) ==
    [i \in Range(p.instance.nb_scenes) |-> <<p.actors[i], {i}>>]

\* the loss of merging clusters a and b
loss(p, a, b) ==
    LET actors == a[1] \cap b[1]
        of(s)  == p.actors[s] \ actors
        lost   == [s \in a[2] \cup b[2] |->
                     SetSum([k \in of(s) |-> p.instance.cost[k] * p.instance.duration[s]],
                            of(s))]
    IN SetSum(lost, a[2]) + SetSum(lost, b[2])

\* the two nested loops with <= for <: the last pair of least loss is kept
RECURSIVE scan_pairs_keeping_last(_, _, _, _, _)
scan_pairs_keeping_last(p, cl, i, j, min_loss) ==
    LET n == Cardinality(DOMAIN cl)
    IN IF i >= n THEN min_loss
       ELSE IF j >= n THEN scan_pairs_keeping_last(p, cl, i + 1, i + 2, min_loss)
       ELSE scan_pairs_keeping_last(p, cl, i, j + 1,
                       IF loss(p, cl[i], cl[j]) <= min_loss[1]
                       THEN <<loss(p, cl[i], cl[j]), i, j>>
                       ELSE min_loss)

\* the two nested loops over the pairs i < j, in the order they are visited
RECURSIVE scan_pairs(_, _, _, _, _)
scan_pairs(p, cl, i, j, min_loss) ==
    LET n == Cardinality(DOMAIN cl)
    IN IF i >= n THEN min_loss
       ELSE IF j >= n THEN scan_pairs(p, cl, i + 1, i + 2, min_loss)
       ELSE scan_pairs(p, cl, i, j + 1,
                       IF loss(p, cl[i], cl[j]) < min_loss[1]
                       THEN <<loss(p, cl[i], cl[j]), i, j>>
                       ELSE min_loss)

find_min_loss(p, cl) == scan_pairs(p, cl, 0, 1, <<usize_MAX, 0, 0>>)

\* a loop that goes on until one cluster fewer than asked for is left
loop_condition_inclusive(cl, n_meta_scenes) == Cardinality(DOMAIN cl) >= n_meta_scenes

\* the condition of the while loop of cluster_scenes
loop_condition(cl, n_meta_scenes) == Cardinality(DOMAIN cl) > n_meta_scenes

\* one iteration of the while loop of cluster_scenes; the index into the
\* shortened vector is out of bounds when the last cluster was removed
cluster_iteration(p, cl) ==
    LET min_loss == find_min_loss(p, cl)
        cluster  == cl[min_loss[3]]
        rest     == Remove(cl, min_loss[3])
    IN IF min_loss[2] \notin DOMAIN rest
       THEN [panic |-> TRUE, clusters |-> rest, min_loss |-> min_loss]
       ELSE [panic |-> FALSE,
             clusters |-> [rest EXCEPT ![min_loss[2]] =
                              <<@[1] \cap cluster[1], @[2] \cup cluster[2]>>],
             min_loss |-> min_loss]

\* cluster_scenes, after its loop: membership[j] is the index of the cluster
\* that holds scene j, the last one written
membership_of(p, cl) ==
    [j \in Range(p.instance.nb_scenes) |->
        LET holding == {i \in DOMAIN cl : j \in cl[i][2]}
        IN IF holding = {} THEN 0 ELSE Max(holding)]

\* meta durations that take the duration of one scene of the cluster
compute_meta_duration_of_one(p, membership, n_meta_scenes) ==
    [j \in Range(n_meta_scenes) |->
        IF {i \in DOMAIN membership : membership[i] = j} = {} THEN 0
        ELSE p.instance.duration[Min({i \in DOMAIN membership : membership[i] = j})]]

compute_meta_duration(p, membership, n_meta_scenes) ==
    [j \in Range(n_meta_scenes) |->
        SetSum([i \in DOMAIN membership |-> p.instance.duration[i]],
               {i \in DOMAIN membership : membership[i] = j})]

\* meta requirements that take an actor some scene of the cluster requires
compute_meta_actors_of_any(p, membership, n_meta_scenes) ==
    [actor \in Range(p.instance.nb_actors) |->
        [j \in Range(n_meta_scenes) |->
            IF \E i \in DOMAIN membership :
                  membership[i] = j /\ p.instance.actors[actor][i] = 1
            THEN 1 ELSE 0]]

compute_meta_actors(p, membership, n_meta_scenes) ==
    [actor \in Range(p.instance.nb_actors) |->
        [j \in Range(n_meta_scenes) |->
            IF \A i \in DOMAIN membership :
                  membership[i] = j => p.instance.actors[actor][i] = 1
            THEN 1 ELSE 0]]

\* TalentSchedCompression::new, from the membership cluster_scenes returned
TalentSchedCompressionNew(p, n_meta_scenes, membership) ==
    LET duration == compute_meta_duration(p, membership, n_meta_scenes)
        actors   == compute_meta_actors(p, membership, n_meta_scenes)
        meta_instance == TalentSchedInstance(n_meta_scenes, p.instance.nb_actors,
                                             p.instance.cost, duration, actors)
    IN [problem |-> p,
        meta_problem |-> TalentSchedNew(meta_instance),
        membership |-> membership,
        members |-> [j \in Range(n_meta_scenes) |->
                        {i \in DOMAIN membership : membership[i] = j}],
        size |-> [j \in Range(n_meta_scenes) |->
                        Cardinality({i \in DOMAIN membership : membership[i] = j})]]

\* the loop of compress over the clusters, with its break
RECURSIVE compress_loop(_, _, _, _)
compress_loop(c, st, i, compressed) ==
    IF i >= c.meta_problem.instance.nb_scenes THEN compressed
    ELSE LET present_from_cluster == st.scenes \cap c.members[i]
         IN IF present_from_cluster = c.members[i]
            THEN compress_loop(c, st, i + 1,
                     TalentSchedState(compressed.scenes \cup {i}, compressed.maybe_scenes))
            ELSE IF present_from_cluster # {}
            THEN TalentSchedState({}, compressed.maybe_scenes)
            ELSE compress_loop(c, st, i + 1, compressed)

\* compress without the test on maybe_scenes
compress_certain_scenes(c, st) ==
    compress_loop(c, st, 0, TalentSchedState({}, {}))

compress(c, st) ==
    IF st.maybe_scenes # {} THEN TalentSchedState({}, {})
    ELSE compress_loop(c, st, 0, TalentSchedState({}, {}))

\* the first loop of decompress: size[value] copies of every decision
RECURSIVE expand(_, _, _)
expand(c, solution, k) ==
    IF k > Len(solution) THEN <<>>
    ELSE [n \in 1 .. c.size[solution[k].value] |->
              Decision(solution[k].variable, solution[k].value)]
         \o expand(c, solution, k + 1)

\* decompress without the renumbering of the variables
decompress_not_renumbered(c, solution) == expand(c, solution, 1)

decompress(c, solution) ==
    LET sol   == expand(c, solution, 1)
        start == c.problem.instance.nb_scenes - Len(sol)
    IN [i \in DOMAIN sol |-> Decision(Variable(start + (i - 1)), sol[i].value)]

\* ------------------------------------------------------------ Solve::solve
\* the best value of the completions of a state: the largest sum of
\* transition costs over the paths from it to the last layer
RECURSIVE best_remaining_value(_, _, _)
best_remaining_value(p, d, st) ==
    IF next_variable(p, d) = None THEN 0
    ELSE Max({transition_cost(p, st, dec) + best_remaining_value(p, d + 1, transition(p, st, dec)) :
                dec \in SeqRange(for_each_in_domain(p, next_variable(p, d)[1], st))})

\* isize::MAX, carried as a value above every cost of the bounded instances
isize_MAX == 2147483647

\* the instance of two actors and two groups of three scenes, the first group
\* requiring actor 0 only and the second actor 1 only
TwoGroups(cost, duration) ==
    TalentSchedInstance(6, 2, cost, duration,
                        [a \in Range(2) |-> [s \in Range(6) |-> IF s \div 3 = a THEN 1 ELSE 0]])

\* the instance of four scenes and two actors with graded costs and
\* durations and a given requirement matrix
FourScenes(actors) ==
    TalentSchedInstance(4, 2, GradedCost(2), GradedDuration(4), actors)

\* the durations of the two groups: graded, or the same for every scene
TwoGroupsDurations ==
    {GradedDuration(6)} \cup {[s \in Range(6) |-> k] : k \in 1 .. MaxDuration}

\* the arguments of solve that the run depends on
Solve(n_meta_items, compression_bound, compression_heuristic) ==
    [n_meta_items |-> n_meta_items, compression_bound |-> compression_bound,
     compression_heuristic |-> compression_heuristic]

\* the start of a run of solve: the problem of the instance read, the
\* arguments, and the clusters cluster_scenes starts from
SolveStart(instance, args) ==
    /\ pb = TalentSchedNew(instance)
    /\ self = args
    /\ clusters = singletons(pb)
    /\ mode = "solve"
    /\ pc = "cluster_scenes"
    /\ compressor = None
    /\ solver = None
    /\ output = None
    /\ op = [name |-> "init"]
    /\ depth = 0
    /\ state = initial_state(pb)
    /\ path = <<>>
    /\ value = initial_value(pb)
    /\ width = 0
    /\ layer = {}

\* solve on an instance within the bounds with graded costs and durations, for any
\* number of clusters up to one more than its scenes and any use of the
\* compression, or on an instance of two groups for two clusters and no use
\* of the compression, or on an instance of four scenes for one to four
\* clusters and no use of the compression
InitSolve ==
    \/ \E sh \in Shapes :
          \E m \in Requirements(sh[1], sh[2]), k \in 0 .. (sh[1] + 1),
             bound \in BOOLEAN, heuristic \in BOOLEAN :
              SolveStart(TalentSchedInstance(sh[1], sh[2], GradedCost(sh[2]),
                                             GradedDuration(sh[1]), m),
                         Solve(k, bound, heuristic))
    \/ \E c \in [Range(2) -> 1 .. MaxCost], d \in TwoGroupsDurations :
          SolveStart(TwoGroups(c, d), Solve(2, FALSE, FALSE))
    \/ \E m \in Requirements(4, 2), k \in 1 .. 4 :
          SolveStart(FourScenes(m), Solve(k, FALSE, FALSE))

\* one iteration of the loop of cluster_scenes: the pair of least loss is
\* merged
ClusterMerge ==
    /\ pc = "cluster_scenes"
    /\ loop_condition(clusters, self.n_meta_items)
    /\ LET it == cluster_iteration(pb, clusters)
       IN /\ clusters' = it.clusters
          /\ pc' = IF it.panic THEN "panicked" ELSE pc
          /\ op' = [name |-> "cluster_merge", clusters |-> clusters,
                    min_loss |-> it.min_loss, panic |-> it.panic]
    /\ UNCHANGED <<pb, mode, compilation, self, compressor, solver, output>>

\* the loop of cluster_scenes is over: the rest of TalentSchedCompression::new
NewCompression ==
    /\ pc = "cluster_scenes"
    /\ ~loop_condition(clusters, self.n_meta_items)
    /\ compressor' = Some(TalentSchedCompressionNew(pb, self.n_meta_items,
                                                   membership_of(pb, clusters)))
    /\ pc' = "search"
    /\ op' = [name |-> "search"]
    /\ UNCHANGED <<pb, mode, compilation, self, clusters, solver, output>>

\* the states of the problem handed to compress: disjoint scenes and
\* maybe_scenes
States(p) ==
    {TalentSchedState(sc, mb) : sc \in SUBSET Range(p.instance.nb_scenes),
                                mb \in SUBSET Range(p.instance.nb_scenes)}

\* the sequences of n distinct values of a set
RECURSIVE Arrangements(_, _)
Arrangements(S, n) ==
    IF n = 0 THEN {<<>>}
    ELSE UNION {{<<x>> \o t : t \in Arrangements(S \ {x}, n - 1)} : x \in S}

\* the solutions of the meta-problem handed to decompress: the last n
\* decisions of a path of the meta-problem, each on another cluster
MetaSolutions(c) ==
    LET K == c.meta_problem.instance.nb_scenes
    IN UNION {{[i \in 1 .. n |-> Decision(Variable(K - n + i - 1), t[i])] :
                  t \in Arrangements(Range(K), n)} : n \in 0 .. K}

\* the compression bound or the compression heuristic compresses a state
Compress ==
    /\ pc = "search"
    /\ self.compression_bound \/ self.compression_heuristic
    /\ \E st \in States(pb) :
          /\ st.scenes \cap st.maybe_scenes = {}
          /\ op' = [name |-> "compress", state |-> st, ret |-> compress(compressor[1], st)]
    /\ pc' = "compress"
    /\ UNCHANGED <<pb, mode, compilation, self, clusters, compressor, solver, output>>

\* the compression bound or the compression heuristic decompresses a
\* solution of the meta-problem
Decompress ==
    /\ pc = "search"
    /\ self.compression_bound \/ self.compression_heuristic
    /\ \E solution \in MetaSolutions(compressor[1]) :
          op' = [name |-> "decompress", solution |-> solution,
                 ret |-> decompress(compressor[1], solution)]
    /\ pc' = "decompress"
    /\ UNCHANGED <<pb, mode, compilation, self, clusters, compressor, solver, output>>

\* the caller of compress or decompress took the result: the search goes on
Resume ==
    /\ pc \in {"compress", "decompress"}
    /\ pc' = "search"
    /\ op' = [name |-> "search"]
    /\ UNCHANGED <<pb, mode, compilation, self, clusters, compressor, solver, output>>

\* the scenes of a path, in the order they are scheduled
Schedule(decisions) == [k \in DOMAIN decisions |-> decisions[k].value]

\* the value of a path from a state: the sum of its transition costs
RECURSIVE path_value(_, _, _, _)
path_value(p, st, decisions, k) ==
    IF k > Len(decisions) THEN 0
    ELSE transition_cost(p, st, decisions[k])
            + path_value(p, transition(p, st, decisions[k]), decisions, k + 1)

\* the complete paths of the problem: one decision per variable, every scene
Solutions(p) ==
    {[i \in 1 .. p.instance.nb_scenes |-> Decision(Variable(i - 1), t[i])] :
        t \in Arrangements(Range(p.instance.nb_scenes), p.instance.nb_scenes)}

Completion(best_value, is_exact) == [best_value |-> best_value, is_exact |-> is_exact]

\* what the solver holds when maximize returns.  Either the time budget ran
\* out before any solution was found, or a best solution and its value are
\* known, proved optimal only when they are; the upper bound is the best
\* value when exact, and the initial one, isize::MAX, when no bound was proved
Outcomes(p) ==
    LET value_of(sol) == initial_value(p) + path_value(p, initial_state(p), sol, 1)
        best == initial_value(p) + best_remaining_value(p, 0, initial_state(p))
    IN {[maximize |-> Completion(None, FALSE), best_solution |-> None,
         best_upper_bound |-> isize_MAX]}
       \cup
       {[maximize |-> Completion(Some(value_of(sol)), FALSE),
         best_solution |-> Some(sol),
         best_upper_bound |-> isize_MAX] : sol \in Solutions(p)}
       \cup
       {[maximize |-> Completion(Some(value_of(sol)), TRUE),
         best_solution |-> Some(sol),
         best_upper_bound |-> value_of(sol)] :
            sol \in {x \in Solutions(p) : value_of(x) = best}}

\* solver.maximize() returns
Maximize ==
    /\ pc = "search"
    /\ solver' \in Outcomes(pb)
    /\ pc' = "maximized"
    /\ op' = [name |-> "maximize"]
    /\ UNCHANGED <<pb, mode, compilation, self, clusters, compressor, output>>

\* the rest of solve: the values to report are read from the solver and
\* printed; unwrap on a best solution that is None panics before any line is
\* printed
Report ==
    /\ pc = "maximized"
    /\ LET best_value == IF solver.maximize.best_value = None THEN isize_MAX
                         ELSE -solver.maximize.best_value[1]
           best_bound == -solver.best_upper_bound
       IN IF solver.best_solution = None
          THEN /\ pc' = "panicked"
               /\ output' = None
          ELSE /\ pc' = "done"
               /\ output' = Some([is_exact |-> solver.maximize.is_exact,
                                  best_value |-> best_value,
                                  best_bound |-> best_bound,
                                  solution |-> Schedule(solver.best_solution[1])])
    /\ op' = [name |-> "report"]
    /\ UNCHANGED <<pb, mode, compilation, self, clusters, compressor, solver>>

NextSolve ==
    ClusterMerge \/ NewCompression \/ Compress \/ Decompress \/ Resume \/ Maximize \/ Report

SpecSolve == InitSolve /\ [][NextSolve]_vars

\* ---------------------------------------------------------- generator
\* the defaults of the cost and duration ranges
min_cost == 1

max_cost == 100

min_duration == 1

max_duration == 10

\* the generator's arguments that shape the instance; the ranges are left at
\* their defaults
TalentSchedGenerator(nb_scenes, nb_actors, nb_clusters) ==
    [nb_scenes |-> nb_scenes, nb_actors |-> nb_actors, nb_clusters |-> nb_clusters,
     min_cost |-> min_cost, max_cost |-> max_cost,
     min_duration |-> min_duration, max_duration |-> max_duration]

\* a draw of Uniform::new_inclusive(low, high): the model draws an end of
\* the range
Uniform(low, high) == {low, high}

\* the sizes of the clusters: the quotient each, and one more for the first
\* nb_scenes % nb_clusters of them
nb_scenes_per_cluster(g) ==
    [i \in Range(g.nb_clusters) |->
        (g.nb_scenes \div g.nb_clusters)
            + (IF i < g.nb_scenes % g.nb_clusters THEN 1 ELSE 0)]

\* generate_costs and generate_duration push one draw per cluster
generate_costs(g, draws) == [k \in Range(g.nb_clusters) |-> draws[k]]

generate_duration(g, draws) == [k \in Range(g.nb_clusters) |-> draws[k]]

\* the scene a cluster starts at: the sizes of the clusters before it
RECURSIVE first_scene(_, _)
first_scene(sizes, k) ==
    IF k = 0 THEN 0 ELSE first_scene(sizes, k - 1) + sizes[k - 1]

\* the cells generate_actors writes: for every cluster and every actor the
\* cell of the cluster's first scene, then the cells of its other scenes
written(g, sizes) ==
    UNION {{<<i, first_scene(sizes, k) + j>> :
                i \in Range(g.nb_actors), j \in 0 .. (Max({sizes[k], 1}) - 1)} :
           k \in DOMAIN sizes}

\* generate_actors: a matrix of zeros of nb_actors rows and nb_scenes
\* columns, whose written cells take the draws; a write past the end of a
\* row panics
generate_actors(g, sizes, draws) ==
    [panic  |-> \E w \in written(g, sizes) : w[2] \notin Range(g.nb_scenes),
     actors |-> [i \in Range(g.nb_actors) |->
                   [s \in Range(g.nb_scenes) |->
                       IF <<i, s>> \in written(g, sizes) THEN draws[i][s] ELSE 0]]]

\* a run of generate starts with the arguments, within the size budget
InitGenerate ==
    /\ \E nb_scenes \in 0 .. MaxScenes, nb_actors \in 0 .. MaxActors,
          nb_clusters \in 0 .. MaxClusters :
          /\ nb_scenes * nb_actors <= MaxCells
          /\ self = TalentSchedGenerator(nb_scenes, nb_actors, nb_clusters)
    /\ mode = "generate"
    /\ pc = "generate"
    /\ op = [name |-> "init"]
    /\ output = None
    /\ pb = None
    /\ depth = 0
    /\ state = None
    /\ path = <<>>
    /\ value = 0
    /\ width = 0
    /\ layer = {}
    /\ clusters = <<>>
    /\ compressor = None
    /\ solver = None

\* the cluster sizes; the division panics when there is no cluster
ScenesPerCluster ==
    /\ mode = "generate"
    /\ pc = "generate"
    /\ IF self.nb_clusters = 0
       THEN /\ pc' = "panicked"
            /\ op' = [name |-> "nb_scenes_per_cluster"]
       ELSE /\ pc' = "generate_costs"
            /\ op' = [name |-> "nb_scenes_per_cluster",
                      nb_scenes_per_cluster |-> nb_scenes_per_cluster(self)]
    /\ UNCHANGED <<pb, mode, compilation, self, clusters, compressor, solver, output>>

GenerateCosts ==
    /\ mode = "generate"
    /\ pc = "generate_costs"
    /\ \E draws \in [Range(self.nb_clusters) -> Uniform(self.min_cost, self.max_cost)] :
          op' = [name |-> "generate_costs",
                 nb_scenes_per_cluster |-> op.nb_scenes_per_cluster,
                 cost |-> generate_costs(self, draws)]
    /\ pc' = "generate_duration"
    /\ UNCHANGED <<pb, mode, compilation, self, clusters, compressor, solver, output>>

GenerateDuration ==
    /\ mode = "generate"
    /\ pc = "generate_duration"
    /\ \E draws \in [Range(self.nb_clusters) ->
                        Uniform(self.min_duration, self.max_duration)] :
          op' = [name |-> "generate_duration",
                 nb_scenes_per_cluster |-> op.nb_scenes_per_cluster,
                 cost |-> op.cost,
                 duration |-> generate_duration(self, draws)]
    /\ pc' = "generate_actors"
    /\ UNCHANGED <<pb, mode, compilation, self, clusters, compressor, solver, output>>

GenerateActors ==
    /\ mode = "generate"
    /\ pc = "generate_actors"
    /\ \E draws \in Requirements(self.nb_scenes, self.nb_actors) :
          LET ret == generate_actors(self, op.nb_scenes_per_cluster, draws)
          IN IF ret.panic
             THEN /\ pc' = "panicked"
                  /\ op' = [name |-> "generate_actors",
                            nb_scenes_per_cluster |-> op.nb_scenes_per_cluster,
                            cost |-> op.cost,
                            duration |-> op.duration]
             ELSE /\ pc' = "instance"
                  /\ op' = [name |-> "generate_actors",
                            nb_scenes_per_cluster |-> op.nb_scenes_per_cluster,
                            cost |-> op.cost,
                            duration |-> op.duration,
                            actors |-> ret.actors]
    /\ UNCHANGED <<pb, mode, compilation, self, clusters, compressor, solver, output>>

\* the instance is built from the three vectors and written out; the output
\* is the object of the five fields that the serialisation writes
Emit ==
    /\ mode = "generate"
    /\ pc = "instance"
    /\ output' = Some(TalentSchedInstance(self.nb_clusters, self.nb_actors,
                                          op.cost, op.duration, op.actors))
    /\ pc' = "done"
    /\ op' = [name |-> "instance"]
    /\ UNCHANGED <<pb, mode, compilation, self, clusters, compressor, solver>>

NextGenerate ==
    ScenesPerCluster \/ GenerateCosts \/ GenerateDuration \/ GenerateActors \/ Emit

SpecGenerate == InitGenerate /\ [][NextGenerate]_vars

\* ===================================================== properties, exact runs
Scenes == Range(pb.instance.nb_scenes)

ActorIds == Range(pb.instance.nb_actors)

\* the cost every actor incurs on its own required scenes
ForcedCost(inst, scenes) ==
    SetSum([s \in scenes |->
              SetSum([a \in {x \in Range(inst.nb_actors) : inst.actors[x][s] = 1} |->
                        inst.cost[a] * inst.duration[s]],
                     {x \in Range(inst.nb_actors) : inst.actors[x][s] = 1})], scenes)

\* the positions of a schedule at which actor a is required
RequiredAt(inst, sched, a) == {k \in DOMAIN sched : inst.actors[a][sched[k]] = 1}

\* the positions at which actor a is on set: from its first required scene to
\* its last, both included
OnSetAt(inst, sched, a) ==
    IF RequiredAt(inst, sched, a) = {} THEN {}
    ELSE Min(RequiredAt(inst, sched, a)) .. Max(RequiredAt(inst, sched, a))

TotalHoldingCost(inst, sched) ==
    SetSum([a \in Range(inst.nb_actors) |->
              inst.cost[a] * SetSum([k \in OnSetAt(inst, sched, a) |-> inst.duration[sched[k]]],
                                    OnSetAt(inst, sched, a))],
           Range(inst.nb_actors))

Complete == mode = "exact" /\ depth = pb.instance.nb_scenes

\* C2: on a complete exact path the initial value plus the transition costs
\* taken along the path is minus the total holding cost of its schedule,
\* every actor paid from its first to its last required scene
C2_InitialAccounting ==
    Complete => value = -TotalHoldingCost(pb.instance, Schedule(path))

\* a complete path on which a paid actor waits through a scene it is not in
C2_Witness ==
    /\ Complete
    /\ \E a \in ActorIds :
          /\ pb.instance.cost[a] > 0
          /\ OnSetAt(pb.instance, Schedule(path), a)
                # RequiredAt(pb.instance, Schedule(path), a)

\* C4: in an exact compilation, with no compression bound, the fast upper
\* bound of a state is at least the best value of its completions
C4_UpperBoundValidity ==
    mode = "exact" =>
        fast_upper_bound(Relaxation, state) >= best_remaining_value(pb, depth, state)

\* a state with two held actors whose bound is tighter than the forced cost
\* of its remaining scenes, and exact there
C4_Witness ==
    /\ mode = "exact"
    /\ Cardinality(get_present(pb, state)) >= 2
    /\ fast_upper_bound(Relaxation, state) < -ForcedCost(pb.instance, state.scenes)
    /\ fast_upper_bound(Relaxation, state) = best_remaining_value(pb, depth, state)

\* C7 as stated: the initial value is minus the forced cost of the instance
C7_InitialValueIsForcedCost ==
    mode = "exact" => initial_value(pb) = -ForcedCost(pb.instance, Scenes)

\* C7, amended: the initial value is 0, and a compilation starts from it
C7_InitialValueIsZero ==
    mode = "exact" => /\ initial_value(pb) = 0
                      /\ depth = 0 => value = 0

\* the root of an instance whose forced cost is not 0
C7_Witness ==
    /\ mode = "exact"
    /\ depth = 0
    /\ value = 0
    /\ ForcedCost(pb.instance, Scenes) > 0

\* the instance of three scenes of one day and one actor of cost 2, required
\* by the first and the last scene
ForcedHolding ==
    TalentSchedInstance(3, 1, [a \in Range(1) |-> 2], [s \in Range(3) |-> 1],
                        [a \in Range(1) |-> [s \in Range(3) |-> IF s = 1 THEN 0 ELSE 1]])

\* the optimum of the DP: minus the best value of a complete path
Optimum(p) == -(initial_value(p) + best_remaining_value(p, 0, initial_state(p)))

\* C18 as stated: the optimum of the instance is 6
C18_OptimumIsSix ==
    (mode = "exact" /\ pb.instance = ForcedHolding) => Optimum(pb) = 6

\* C18, amended: the optimum of the instance is 4, the cost of the paths that
\* place scene 1 first or last; the paths that place it in the middle cost 6
C18_OptimumIsFour ==
    (mode = "exact" /\ pb.instance = ForcedHolding) =>
        /\ Optimum(pb) = 4
        /\ Complete => -value = IF path[2].value = 1 THEN 6 ELSE 4

\* a complete path of the instance that places scene 1 last and costs 4
C18_Witness ==
    /\ Complete
    /\ pb.instance = ForcedHolding
    /\ path[3].value = 1
    /\ -value = 4

\* =================================================== properties, relaxed runs
Relaxed == mode = "relaxed"

Merged == Relaxed /\ op.name = "merge"

Expanded == Relaxed /\ op.name = "expand"

\* C1: every state of a layer, reached by transitions on emitted decisions and
\* merges of states of one layer, has disjoint scenes and maybe_scenes, both
\* within the scenes of the instance
C1_Disjoint ==
    Relaxed => \A st \in layer :
                  /\ st.scenes \cap st.maybe_scenes = {}
                  /\ st.scenes \subseteq Scenes
                  /\ st.maybe_scenes \subseteq Scenes

\* a child of a merged state that still has certain and uncertain scenes
C1_Witness ==
    /\ Expanded
    /\ \E st \in layer : st.scenes # {} /\ st.maybe_scenes # {}

\* the decisions with one value that every state of a sequence emits at a depth
CommonDecisions(p, d, states) ==
    {dec \in {Decision(Variable(d), v) : v \in Range(p.instance.nb_scenes)} :
        \A i \in DOMAIN states : dec \in SeqRange(for_each_in_domain(p, Variable(d), states[i]))}

\* C3: a decision in the domain of every merged state costs, at the merged
\* state, at least as much (in value) as at each of them
C3_RelaxationSound ==
    Merged => \A dec \in CommonDecisions(pb, depth, op.states) :
                \A i \in DOMAIN op.states :
                    transition_cost(pb, op.merged, dec) >= transition_cost(pb, op.states[i], dec)

\* a merge after which a common decision is strictly cheaper than at an input
C3_Witness ==
    /\ Merged
    /\ \E dec \in CommonDecisions(pb, depth, op.states) :
          \E i \in DOMAIN op.states :
              transition_cost(pb, op.merged, dec) > transition_cost(pb, op.states[i], dec)

\* C5: no decision on a scene of scenes or maybe_scenes has a positive cost
C5_CostNonPositive ==
    Relaxed => \A st \in layer : \A v \in st.scenes \cup st.maybe_scenes :
                  transition_cost(pb, st, Decision(Variable(depth), v)) <= 0

\* a merged state at which deciding an uncertain scene costs something
C5_Witness ==
    /\ Relaxed
    /\ \E st \in layer : \E v \in st.maybe_scenes :
          transition_cost(pb, st, Decision(Variable(depth), v)) < 0

\* the actors of a scene, read off the requirement matrix
ActorsOf(s) == {a \in ActorIds : pb.instance.actors[a][s] = 1}

Before(st) == UNION {ActorsOf(s) : s \in Scenes \ (st.scenes \cup st.maybe_scenes)}

After(st) == UNION {ActorsOf(s) : s \in st.scenes}

Present(st) == Before(st) \cap After(st)

Charge(A, v) == SetSum([a \in A |-> pb.instance.cost[a] * pb.instance.duration[v]], A)

\* C6 as stated: the cost charges the held actors that scene v does not require
C6_ChargesHeldNotRequired ==
    Relaxed => \A st \in layer : \A v \in st.scenes \cup st.maybe_scenes :
                  transition_cost(pb, st, Decision(Variable(depth), v))
                      = -Charge(Present(st) \ ActorsOf(v), v)

\* C6, amended: the cost charges the held actors and the actors scene v requires
C6_ChargesHeldAndRequired ==
    Relaxed => \A st \in layer : \A v \in st.scenes \cup st.maybe_scenes :
                  transition_cost(pb, st, Decision(Variable(depth), v))
                      = -Charge(Present(st) \cup ActorsOf(v), v)

\* a state with uncertain scenes and a decision that pays a held actor the
\* scene does not require and an actor the scene requires
C6_Witness ==
    /\ Relaxed
    /\ \E st \in layer : \E v \in st.scenes \cup st.maybe_scenes :
          /\ st.maybe_scenes # {}
          /\ Present(st) \ ActorsOf(v) # {}
          /\ ActorsOf(v) # {}
          /\ transition_cost(pb, st, Decision(Variable(depth), v))
                = -Charge(Present(st) \cup ActorsOf(v), v)

\* the elements common to the sets of a non-empty family
Intersection(F) == {x \in UNION F : \A X \in F : x \in X}

\* C8: merge returns the intersection of the scenes and, as maybe_scenes,
\* every other scene of an input; each input's scenes are within the merged
\* scenes and maybe_scenes, its maybe_scenes within the merged maybe_scenes
C8_Merge ==
    Merged =>
        LET scenes_i == {op.states[i].scenes : i \in DOMAIN op.states}
            maybe_i  == {op.states[i].maybe_scenes : i \in DOMAIN op.states}
        IN /\ op.merged.scenes = Intersection(scenes_i)
           /\ op.merged.maybe_scenes
                = (UNION scenes_i \cup UNION maybe_i) \ Intersection(scenes_i)
           /\ \A i \in DOMAIN op.states :
                 /\ op.states[i].scenes
                       \subseteq op.merged.scenes \cup op.merged.maybe_scenes
                 /\ op.states[i].maybe_scenes \subseteq op.merged.maybe_scenes

\* a merge of states that disagree on a certain scene, one with uncertain scenes
C8_Witness ==
    /\ Merged
    /\ \E i, j \in DOMAIN op.states :
          /\ op.states[i].scenes # op.states[j].scenes
          /\ op.states[i].maybe_scenes # {}

\* C9: the domain of a state lists its scenes first, then its maybe_scenes
\* exactly when depth + |scenes| < nb_scenes, nothing else, every decision on
\* the variable given
C9_Domain ==
    Expanded => \A c \in op.calls :
        LET e == c.domain
            k == Cardinality(c.state.scenes)
            m == Cardinality(c.state.maybe_scenes)
            emits == c.variable + k < pb.instance.nb_scenes
        IN /\ Len(e) >= k
           /\ {e[i].value : i \in 1 .. k} = c.state.scenes
           /\ emits => /\ Len(e) = k + m
                       /\ {e[i].value : i \in (k + 1) .. (k + m)} = c.state.maybe_scenes
           /\ ~emits => Len(e) = k
           /\ \A i \in DOMAIN e : e[i].variable = c.variable

\* a layer with one state whose maybe_scenes are emitted and one whose are not
C9_Witness ==
    /\ Expanded
    /\ \E c \in op.calls :
          /\ c.state.maybe_scenes # {}
          /\ c.state.scenes # {}
          /\ Len(c.domain) = Cardinality(c.state.scenes)
    /\ \E c \in op.calls :
          /\ c.state.maybe_scenes # {}
          /\ Len(c.domain) > Cardinality(c.state.scenes)

\* C10: a transition on scene v returns the state without v in scenes and in
\* maybe_scenes, every other scene where it was, and leaves its input as it was
C10_Transition ==
    Expanded => \A c \in op.calls : \A b \in c.branches :
        LET v == b.decision.value
        IN /\ b.next.scenes = c.state.scenes \ {v}
           /\ b.next.maybe_scenes = c.state.maybe_scenes \ {v}
           /\ \A s \in Scenes \ {v} :
                 /\ s \in b.next.scenes <=> s \in c.state.scenes
                 /\ s \in b.next.maybe_scenes <=> s \in c.state.maybe_scenes
           /\ v \notin c.state.maybe_scenes => b.next.maybe_scenes = c.state.maybe_scenes
           /\ v \notin c.state.scenes => b.next.scenes = c.state.scenes
           /\ b.state = c.state

\* a state from which a certain scene and an uncertain scene are both decided
C10_Witness ==
    /\ Expanded
    /\ \E c \in op.calls :
          /\ \E b \in c.branches :
                b.decision.value \in c.state.scenes /\ b.next.maybe_scenes # {}
          /\ \E b \in c.branches :
                b.decision.value \in c.state.maybe_scenes /\ b.next.scenes # {}

\* the states of the last layer of a relaxed compilation
Terminal == Relaxed /\ depth = pb.instance.nb_scenes

\* next_variable answers the depth while a scene is left to place, then None
NextVariableByDepth ==
    \A d \in 0 .. pb.instance.nb_scenes :
        next_variable(pb, d) = IF d < pb.instance.nb_scenes THEN Some(Variable(d)) ELSE None

\* C11 as stated: every state of the last layer has no scene left, certain or
\* uncertain, and next_variable answers Some(d) below depth S and None at S
C11_TerminalEmpty ==
    Relaxed => /\ Terminal => \A st \in layer :
                      Cardinality(st.scenes) + Cardinality(st.maybe_scenes) = 0
               /\ NextVariableByDepth

\* C11, amended: every state of the last layer has no certain scene left, but
\* may keep uncertain scenes; at depth d a state has at most S - d certain
\* scenes and at least S - d scenes in all; next_variable answers Some(d)
\* below depth S and None at S
C11_TerminalNoCertainScene ==
    Relaxed => /\ Terminal => \A st \in layer : st.scenes = {}
               /\ \A st \in layer :
                     /\ Cardinality(st.scenes) <= pb.instance.nb_scenes - depth
                     /\ Cardinality(st.scenes) + Cardinality(st.maybe_scenes)
                           >= pb.instance.nb_scenes - depth
               /\ NextVariableByDepth

\* a last layer, after every scene was decided, with a state that keeps an
\* uncertain scene
C11_Witness ==
    /\ Terminal
    /\ op.name = "expand"
    /\ next_variable(pb, depth) = None
    /\ \E st \in layer : st.scenes = {} /\ st.maybe_scenes # {}

\* the scenes decided along a path
Decided(decisions) == {decisions[k].value : k \in DOMAIN decisions}

\* C12: on an exact path the state at depth d has no uncertain scene and
\* S - d certain scenes, the d decisions are on the variables 0..d-1 and on
\* pairwise distinct scenes, which are exactly the scenes missing from the
\* state; a complete path is a permutation of the scenes
C12_ExactPaths ==
    mode = "exact" =>
        /\ state.maybe_scenes = {}
        /\ Cardinality(state.scenes) = pb.instance.nb_scenes - depth
        /\ Len(path) = depth
        /\ \A k \in DOMAIN path : path[k].variable = k - 1
        /\ \A j, k \in DOMAIN path : j # k => path[j].value # path[k].value
        /\ Decided(path) = Scenes \ state.scenes
        /\ Complete => /\ Decided(path) = Scenes
                       /\ Cardinality(Decided(path)) = Len(path)

\* a complete path of three scenes that does not take them in index order
C12_Witness ==
    /\ Complete
    /\ pb.instance.nb_scenes = MaxScenes
    /\ Decided(path) = Scenes
    /\ \E k \in DOMAIN path : path[k].value # k - 1

\* ================================================= properties, runs of solve
Solving == mode = "solve"

\* the compression is built
Built == Solving /\ compressor # None

Compressed == Solving /\ pc = "compress"

Decompressed == Solving /\ pc = "decompress"

\* C13: compress returns no uncertain scene; the empty state for a state
\* with uncertain scenes; for a state of whole clusters, the clusters whose
\* members are all in scenes; and no scene when a cluster is in scenes in part
C13_Compress ==
    Compressed =>
        LET members == compressor[1].members
            whole(c) == members[c] \subseteq op.state.scenes
            partly(c) == /\ members[c] \cap op.state.scenes # {}
                         /\ members[c] \cap op.state.scenes # members[c]
        IN /\ op.ret.maybe_scenes = {}
           /\ op.state.maybe_scenes # {} => op.ret = TalentSchedState({}, {})
           /\ (op.state.maybe_scenes = {} /\ \A c \in DOMAIN members : ~partly(c))
                 => op.ret.scenes = {c \in DOMAIN members : whole(c)}
           /\ (op.state.maybe_scenes = {} /\ \E c \in DOMAIN members : partly(c))
                 => op.ret.scenes = {}

\* a state with no uncertain scene that holds a cluster whole and, after it,
\* a cluster in part
C13_Witness ==
    /\ Compressed
    /\ op.state.maybe_scenes = {}
    /\ op.ret.scenes = {}
    /\ \E c, e \in DOMAIN compressor[1].members :
          /\ c < e
          /\ compressor[1].members[c] # {}
          /\ compressor[1].members[c] \subseteq op.state.scenes
          /\ compressor[1].members[e] \cap op.state.scenes # {}
          /\ ~(compressor[1].members[e] \subseteq op.state.scenes)

\* the number of decisions the first k decisions of a meta-solution expand to
BlockStart(size, m, k) == SetSum([j \in 1 .. k |-> size[m[j].value]], 1 .. k)

\* C14: the variables of a decompressed solution are consecutive and end at
\* S - 1; every decision of the meta-solution, in order, gives size[c]
\* consecutive decisions on its cluster c; a meta-solution of all the K
\* clusters gives S decisions, on the variables 0..S-1
C14_Decompress ==
    Decompressed =>
        LET size == compressor[1].size
            m == op.solution
            r == op.ret
            S == pb.instance.nb_scenes
        IN /\ Len(r) = BlockStart(size, m, Len(m))
           /\ \A i \in DOMAIN r : r[i].variable = Variable(S - Len(r) + (i - 1))
           /\ \A k \in DOMAIN m :
                 \A i \in (BlockStart(size, m, k - 1) + 1) .. BlockStart(size, m, k) :
                     r[i].value = m[k].value
           /\ Len(m) = Cardinality(DOMAIN size) =>
                 /\ Len(r) = S
                 /\ {r[i].variable : i \in DOMAIN r} = Range(S)

\* a meta-solution of all the clusters, fewer than the scenes, that does not
\* take the clusters in index order
C14_Witness ==
    /\ Decompressed
    /\ Len(op.solution) = Cardinality(DOMAIN compressor[1].size)
    /\ Len(op.solution) < pb.instance.nb_scenes
    /\ Len(op.solution) >= 2
    /\ op.solution[1].value # 0
    /\ Len(op.ret) = pb.instance.nb_scenes

\* the number of clusters asked for is between 1 and the number of scenes
InRange == Solving /\ 1 <= self.n_meta_items /\ self.n_meta_items <= pb.instance.nb_scenes

\* C15: for 1 <= K <= S every iteration of the loop of cluster_scenes merges
\* two clusters into one and none is out of bounds; the loop ends with K
\* clusters, after S - K merges; the membership sends every scene to a
\* cluster of 0..K-1 and every cluster has a scene; the members of the
\* clusters are disjoint and cover the scenes, size[c] = |members[c]| >= 1
\* and the sizes add up to S
C15_Clustering ==
    InRange =>
        /\ op.name = "cluster_merge" =>
              /\ ~op.panic
              /\ Cardinality(DOMAIN clusters) = Cardinality(DOMAIN op.clusters) - 1
              /\ Cardinality(DOMAIN clusters) >= self.n_meta_items
        /\ pc = "cluster_scenes" =>
              /\ UNION {clusters[c][2] : c \in DOMAIN clusters} = Scenes
              /\ \A c, e \in DOMAIN clusters : c # e => clusters[c][2] \cap clusters[e][2] = {}
        /\ Built =>
              LET c == compressor[1]
                  K == self.n_meta_items
              IN /\ Cardinality(DOMAIN clusters) = K
                 /\ DOMAIN c.membership = Scenes
                 /\ {c.membership[s] : s \in Scenes} = Range(K)
                 /\ DOMAIN c.members = Range(K)
                 /\ DOMAIN c.size = Range(K)
                 /\ \A i \in Range(K) : c.members[i] = clusters[i][2]
                 /\ \A i, j \in Range(K) : i # j => c.members[i] \cap c.members[j] = {}
                 /\ UNION {c.members[i] : i \in Range(K)} = Scenes
                 /\ \A i \in Range(K) : c.size[i] = Cardinality(c.members[i]) /\ c.size[i] >= 1
                 /\ SetSum(c.size, Range(K)) = pb.instance.nb_scenes

\* a compression built after two merges, with clusters left to tell apart
C15_Witness ==
    /\ InRange
    /\ Built
    /\ pb.instance.nb_scenes - self.n_meta_items >= 2
    /\ op.name = "search"

\* C16: the meta-problem has K scenes, the actors and the costs of the
\* problem; the duration of a meta-scene is the sum of the durations of its
\* members; a meta-scene requires an actor exactly when all its members do,
\* which are the actors its cluster carried when the clustering ended
C16_MetaProblem ==
    (InRange /\ Built) =>
        LET c == compressor[1]
            meta == c.meta_problem
            K == self.n_meta_items
        IN /\ meta.instance.nb_scenes = K
           /\ meta.instance.nb_actors = pb.instance.nb_actors
           /\ meta.instance.cost = pb.instance.cost
           /\ DOMAIN meta.instance.duration = Range(K)
           /\ \A i \in Range(K) :
                 meta.instance.duration[i] = SetSum(pb.instance.duration, c.members[i])
           /\ \A a \in ActorIds : \A i \in Range(K) :
                 /\ meta.instance.actors[a][i] \in {0, 1}
                 /\ meta.instance.actors[a][i] = 1
                       <=> \A s \in c.members[i] : pb.instance.actors[a][s] = 1
           /\ \A i \in Range(K) :
                 /\ meta.actors[i] = clusters[i][1]
                 /\ meta.actors[i] = {a \in ActorIds : meta.instance.actors[a][i] = 1}

\* a cluster of scenes that do not require the same actors, one actor
\* required by all of them
C16_Witness ==
    /\ InRange
    /\ Built
    /\ op.name = "search"
    /\ \E i \in DOMAIN compressor[1].members :
          /\ \E s, t \in compressor[1].members[i] : pb.actors[s] # pb.actors[t]
          /\ compressor[1].meta_problem.actors[i] # {}

\* the run is on an instance of two groups, and its compression is built
TwoGroupsBuilt ==
    /\ Built
    /\ op.name = "search"
    /\ pb.instance.nb_scenes = 6
    /\ pb.instance = TwoGroups(pb.instance.cost, pb.instance.duration)

\* the cost of a complete path of a problem: minus its value
PathCost(p, values) ==
    -(initial_value(p)
        + path_value(p, initial_state(p),
                     [i \in DOMAIN values |-> Decision(Variable(i - 1), values[i])], 1))

\* C19: on an instance of two groups of three scenes, with positive costs
\* and durations and two clusters asked for, the clusters are the two
\* groups, the two orders of the meta-problem cost the same, and that cost is
\* the least cost of the 6! orders of the problem
C19_CompressionAgreement ==
    TwoGroupsBuilt =>
        LET c == compressor[1]
        IN /\ c.members = [i \in Range(2) |-> {s \in Range(6) : s \div 3 = i}]
           /\ c.meta_problem.instance.nb_scenes = 2
           /\ PathCost(c.meta_problem, <<0, 1>>) = PathCost(c.meta_problem, <<1, 0>>)
           /\ PathCost(c.meta_problem, <<0, 1>>)
                 = Min({PathCost(pb, Schedule(sol)) : sol \in Solutions(pb)})

\* an instance of two groups whose actors differ in cost and whose scenes
\* differ in duration, with a compression built in four merges
C19_Witness ==
    /\ TwoGroupsBuilt
    /\ pb.instance.cost[0] # pb.instance.cost[1]
    /\ pb.instance.duration[0] # pb.instance.duration[1]
    /\ Cardinality(DOMAIN clusters) = 2
    /\ PathCost(compressor[1].meta_problem, <<0, 1>>) > 0

\* solve went past maximize with no value and no solution in the solver
Exhausted ==
    /\ Solving
    /\ op.name = "report"
    /\ solver.maximize.best_value = None
    /\ solver.best_solution = None

\* C20 as stated: when the time budget ends the search with no solution,
\* solve goes to its end and reports is_exact = false and isize::MAX as the
\* best value
C20_ExhaustionReported ==
    Exhausted => /\ pc = "done"
                 /\ output # None
                 /\ output[1].is_exact = FALSE
                 /\ output[1].best_value = isize_MAX

\* C20, what the code does: with no best solution solve panics on the
\* unwrap and prints nothing, while a run with a solution reports it
C20_ExhaustionPanics ==
    (Solving /\ op.name = "report") =>
        IF solver.best_solution = None
        THEN pc = "panicked" /\ output = None
        ELSE /\ pc = "done"
             /\ output[1].is_exact = solver.maximize.is_exact
             /\ output[1].best_value = -solver.maximize.best_value[1]

\* a run that ended on the unwrap of a missing solution
C20_Witness ==
    /\ Exhausted
    /\ ~solver.maximize.is_exact
    /\ pc = "panicked"
    /\ output = None

\* the numbers of certain and of uncertain scenes of a state
Sizes(st) == <<Cardinality(st.scenes), Cardinality(st.maybe_scenes)>>

Total(st) == Cardinality(st.scenes) + Cardinality(st.maybe_scenes)

\* the ranking orders the states of a layer by their total, ascending, and
\* is a total preorder: reflexive, transitive, any two states comparable,
\* compare(a, b) the reverse of compare(b, a)
RankingTotalPreorder ==
    \A a, b \in layer :
        /\ compare(a, b) \in {"Less", "Equal", "Greater"}
        /\ compare(a, b) = "Less" <=> Total(a) < Total(b)
        /\ compare(a, b) = "Greater" <=> Total(a) > Total(b)
        /\ compare(a, a) = "Equal"
        /\ compare(a, b) = "Less" <=> compare(b, a) = "Greater"
        /\ compare(a, b) = "Equal" <=> compare(b, a) = "Equal"
        /\ \A c \in layer :
              (compare(a, b) # "Greater" /\ compare(b, c) # "Greater")
                  => compare(a, c) # "Greater"

\* C17 as stated: the ranking is a total preorder by total size, and two
\* states compare Equal only when they have as many certain scenes and as
\* many uncertain scenes as each other
C17_RankingAntisymmetricOnSizes ==
    Relaxed => /\ RankingTotalPreorder
               /\ \A a, b \in layer : compare(a, b) = "Equal" => Sizes(a) = Sizes(b)

\* C17, amended: the ranking is a total preorder by total size, and two
\* states compare Equal exactly when their totals are equal, whatever the
\* split of the total between certain and uncertain scenes
C17_RankingByTotal ==
    Relaxed => /\ RankingTotalPreorder
               /\ \A a, b \in layer : compare(a, b) = "Equal" <=> Total(a) = Total(b)

\* a layer with two states that compare Equal and do not have as many
\* certain scenes, and a state that compares Less
C17_Witness ==
    /\ Relaxed
    /\ \E a, b, c \in layer :
          /\ compare(a, b) = "Equal"
          /\ Sizes(a) # Sizes(b)
          /\ compare(c, a) = "Less"

\* an iteration of the loop of cluster_scenes merged two clusters
ClustersMerged ==
    /\ Solving
    /\ op.name = "cluster_merge"
    /\ Cardinality(DOMAIN op.clusters) >= 2

\* the pairs i < j of the clusters an iteration started from
ClusterPairs == {pr \in (DOMAIN op.clusters) \X (DOMAIN op.clusters) : pr[1] < pr[2]}

\* the loss of merging clusters i and j, from the requirement matrix
Loss(i, j) ==
    LET kept == op.clusters[i][1] \cap op.clusters[j][1]
        m == op.clusters[i][2] \cup op.clusters[j][2]
    IN SetSum([s \in m |-> Charge(ActorsOf(s) \ kept, s)], m)

\* the pairs of least loss
LeastLoss == {pr \in ClusterPairs : \A q \in ClusterPairs : Loss(pr[1], pr[2]) <= Loss(q[1], q[2])}

\* the merged pair (i, j) has i < j and the least loss of all pairs; the
\* merge puts the actors common to both and the scenes of both at i, removes
\* cluster j and leaves the other clusters as they were, in their order
MergesLeastLoss ==
    LET i == op.min_loss[2]
        j == op.min_loss[3]
    IN /\ <<i, j>> \in LeastLoss
       /\ op.min_loss[1] = Loss(i, j)
       /\ ~op.panic
       /\ DOMAIN clusters = Range(Cardinality(DOMAIN op.clusters) - 1)
       /\ clusters[i] = <<op.clusters[i][1] \cap op.clusters[j][1],
                          op.clusters[i][2] \cup op.clusters[j][2]>>
       /\ \A k \in DOMAIN clusters :
             /\ (k < j /\ k # i) => clusters[k] = op.clusters[k]
             /\ k >= j => clusters[k] = op.clusters[k + 1]

\* C21 as stated: the merged pair has the least loss and, among the pairs of
\* least loss, the smallest j, then the smallest i
C21_TieBySmallestJ ==
    ClustersMerged =>
        /\ MergesLeastLoss
        /\ \A pr \in LeastLoss :
              \/ op.min_loss[3] < pr[2]
              \/ op.min_loss[3] = pr[2] /\ op.min_loss[2] <= pr[1]

\* C21, amended: the merged pair has the least loss and, among the pairs of
\* least loss, the smallest i, then the smallest j
C21_TieBySmallestI ==
    ClustersMerged =>
        /\ MergesLeastLoss
        /\ \A pr \in LeastLoss :
              \/ op.min_loss[2] < pr[1]
              \/ op.min_loss[2] = pr[1] /\ op.min_loss[3] <= pr[2]

\* a merge of the pair of least loss with the smallest i while another pair
\* of least loss has a smaller j
C21_Witness ==
    /\ ClustersMerged
    /\ MergesLeastLoss
    /\ \E pr \in LeastLoss : pr[2] < op.min_loss[3] /\ pr[1] > op.min_loss[2]


\* ================================ properties, followed relaxed compilation
Followed == mode = "followed"

\* the bounds of a state at the current depth: at most S - d certain scenes
\* and at least S - d scenes in all
WithinDepthBounds(st) ==
    /\ Cardinality(st.scenes) <= pb.instance.nb_scenes - depth
    /\ pb.instance.nb_scenes - depth
          <= Cardinality(st.scenes) + Cardinality(st.maybe_scenes)

\* below depth S every state of the layer is handed at least one decision
NoDeadEnd ==
    depth < pb.instance.nb_scenes =>
        \A st \in layer : for_each_in_domain(pb, Variable(depth), st) # <<>>

\* C22 as stated: every state of a layer at depth d has at most S - d certain
\* scenes and at least S - d scenes in all, below depth S every domain is
\* non-empty, and a path that has reached depth S has decided every scene
\* that was certain at one of its states; the scenes are all certain at the
\* root, so the path from the root has decided every scene
C22_CertainScenesDecided ==
    Followed => /\ \A st \in layer : WithinDepthBounds(st)
                /\ NoDeadEnd
                /\ depth = pb.instance.nb_scenes => Scenes \subseteq Decided(path)

\* C22, amended: every state of a layer at depth d has at most S - d certain
\* scenes and at least S - d scenes in all, and below depth S every domain is
\* non-empty; a transition keeps certain every certain scene but the one it
\* decides, and the node a path has reached at depth S has no certain scene,
\* so a scene certain at a state is decided on every continuation by
\* transitions alone; a merge on the way keeps such a scene certain or
\* uncertain, and an uncertain scene may stay undecided at depth S
C22_CertainScenesKeptByTransitions ==
    Followed => /\ \A st \in layer : WithinDepthBounds(st)
                /\ NoDeadEnd
                /\ state \in layer
                /\ Len(path) = depth
                /\ op.name = "expand" =>
                      /\ op.decision.value \in op.src.scenes \cup op.src.maybe_scenes
                      /\ state.scenes = op.src.scenes \ {op.decision.value}
                /\ op.name = "merge" =>
                      /\ state.scenes \subseteq op.src.scenes
                      /\ op.src.scenes \subseteq state.scenes \cup state.maybe_scenes
                /\ depth = pb.instance.nb_scenes => state.scenes = {}

\* a path that has reached depth S through a merged node, after a last
\* transition out of a node with a certain scene, and has left undecided a
\* scene that was certain at the root
C22_Witness ==
    /\ Followed
    /\ depth = pb.instance.nb_scenes
    /\ op.name = "expand"
    /\ op.src.scenes # {}
    /\ \E k \in 1 .. Len(path), l \in 1 .. Len(path) :
          k < l /\ path[k].value = path[l].value
    /\ \E s \in Scenes : s \notin Decided(path) /\ s \in state.maybe_scenes


\* ================================================ properties, generator runs
Generating == mode = "generate"

Emitted == Generating /\ pc = "done"

\* a vector of n entries, indexed from 0
OfLength(vec, n) == DOMAIN vec = Range(n)

\* C23 as stated: for nb_clusters >= 1, the emitted instance has the
\* requested number of scenes in nb_scenes, a cost of length nb_actors, a
\* duration of length nb_scenes and an actors matrix of nb_actors rows of
\* nb_scenes entries
C23_EmittedConforms ==
    (Emitted /\ self.nb_clusters >= 1) =>
        LET instance == output[1]
        IN /\ instance.nb_scenes = self.nb_scenes
           /\ instance.nb_actors = self.nb_actors
           /\ OfLength(instance.cost, instance.nb_actors)
           /\ OfLength(instance.duration, instance.nb_scenes)
           /\ OfLength(instance.actors, instance.nb_actors)
           /\ \A i \in DOMAIN instance.actors :
                 OfLength(instance.actors[i], instance.nb_scenes)

\* C23, what generate does: the run panics exactly when there is no cluster,
\* or when there are more clusters than scenes and at least one actor; the
\* emitted instance has the number of clusters in nb_scenes, a cost and a
\* duration of one entry per cluster, and an actors matrix of nb_actors rows
\* of as many 0/1 entries as scenes were requested
C23_EmittedByClusters ==
    Generating =>
        /\ pc = "panicked" =>
              \/ self.nb_clusters = 0
              \/ self.nb_clusters > self.nb_scenes /\ self.nb_actors >= 1
        /\ pc \in {"instance", "done"} =>
              /\ self.nb_clusters >= 1
              /\ self.nb_clusters <= self.nb_scenes \/ self.nb_actors = 0
        /\ Emitted =>
              LET instance == output[1]
              IN /\ instance.nb_scenes = self.nb_clusters
                 /\ instance.nb_actors = self.nb_actors
                 /\ OfLength(instance.cost, self.nb_clusters)
                 /\ OfLength(instance.duration, self.nb_clusters)
                 /\ OfLength(instance.actors, self.nb_actors)
                 /\ \A i \in DOMAIN instance.actors :
                       /\ OfLength(instance.actors[i], self.nb_scenes)
                       /\ \A s \in DOMAIN instance.actors[i] :
                             instance.actors[i][s] \in {0, 1}

\* an instance emitted for more scenes than clusters and more clusters than
\* actors: its nb_scenes is not the requested number, its cost is longer
\* than nb_actors and its actors rows are longer than nb_scenes
C23_Witness ==
    /\ Emitted
    /\ self.nb_clusters >= 1
    /\ self.nb_scenes > self.nb_clusters
    /\ self.nb_clusters > self.nb_actors
    /\ self.nb_actors >= 1
    /\ output[1].nb_scenes # self.nb_scenes
    /\ ~ OfLength(output[1].cost, output[1].nb_actors)
    /\ \E i \in DOMAIN output[1].actors :
          ~ OfLength(output[1].actors[i], output[1].nb_scenes)

====
